---- MODULE Spec2Model ----
(***************************************************************************)
(* Model of lib/tree.js of eslint-plugin-xss: the six AST helpers          *)
(* getIdentifier, getNodeName, getFullItemName, getPartialItemName,        *)
(* getParentFunctionIdentifier and isParameter.                            *)
(*                                                                         *)
(* The syntax tree is an arena: a function from paths to node records.     *)
(* A path is the sequence of child selectors leading from the root to the  *)
(* node, so a path is the node's identity (two structurally equal nodes    *)
(* at different positions are different nodes) and the parent link is the  *)
(* path without its last selector.                                         *)
(***************************************************************************)
EXTENDS Integers, Sequences, FiniteSets, TLC

VARIABLES root, op, node, expr, result

vars == <<root, op, node, expr, result>>

----------------------------------------------------------------------------
(* Bounds of the enumerated trees *)

MaxChain == 3

MaxWrap == 2

----------------------------------------------------------------------------
(* JavaScript values.  Strings are sequences of one-character strings. *)

Undefined == [t |-> "undefined", path |-> <<>>, str |-> <<>>]

Null == [t |-> "null", path |-> <<>>, str |-> <<>>]

TypeError == [t |-> "throw", path |-> <<>>, str |-> <<"T", "y", "p", "e", "E", "r", "r", "o", "r">>]

Ref(p) == [t |-> "node", path |-> p, str |-> <<>>]

Str(s) == [t |-> "string", path |-> <<>>, str |-> s]

Bool(b) == [t |-> "boolean", path |-> <<>>, str |-> IF b THEN <<"t">> ELSE <<"f">>]

\* ToBoolean of a value that is a node, null or undefined
Truthy(v) == v.t = "node"

----------------------------------------------------------------------------
(* Trees *)

Sel(f) == <<f, 0>>

Idx(f, k) == <<f, k>>

NoTree == [p \in {} |-> 0]

\* a node of the given type with the given children; a child that is NoTree
\* is a field holding null
Mk(type, name, computed, kids) ==
    LET dom == {<<>>} \cup UNION {{<<k[1]>> \o q : q \in DOMAIN k[2]} : k \in kids}
        rec == [type |-> type, name |-> name, computed |-> computed,
                nulls |-> {k[1] : k \in {kk \in kids : DOMAIN kk[2] = {}}}]
    IN  [p \in dom |-> IF p = <<>> THEN rec
                       ELSE (CHOOSE k \in kids : k[1] = Head(p))[2][Tail(p)]]

Elems(f, seq) == {<<Idx(f, k), seq[k]>> : k \in 1..Len(seq)}

Id(n) == Mk("Identifier", n, FALSE, {})

This == Mk("ThisExpression", <<>>, FALSE, {})

Lit == Mk("Literal", <<>>, FALSE, {})

Member(o, p, c) == Mk("MemberExpression", <<>>, c, {<<Sel("object"), o>>, <<Sel("property"), p>>})

Call(c, args) == Mk("CallExpression", <<>>, FALSE, {<<Sel("callee"), c>>} \cup Elems("arguments", args))

Assign(l, r) == Mk("AssignmentExpression", <<>>, FALSE, {<<Sel("left"), l>>, <<Sel("right"), r>>})

Array(es) == Mk("ArrayExpression", <<>>, FALSE, Elems("elements", es))

Cond(t, c, a) ==
    Mk("ConditionalExpression", <<>>, FALSE,
       {<<Sel("test"), t>>, <<Sel("consequent"), c>>, <<Sel("alternate"), a>>})

Property(k, v) == Mk("Property", <<>>, FALSE, {<<Sel("key"), k>>, <<Sel("value"), v>>})

Object(ps) == Mk("ObjectExpression", <<>>, FALSE, Elems("properties", ps))

ObjectPattern == Mk("ObjectPattern", <<>>, FALSE, {})

Arrow(b) == Mk("ArrowFunctionExpression", <<>>, FALSE, {<<Sel("id"), NoTree>>, <<Sel("body"), b>>})

ReturnStmt(e) == Mk("ReturnStatement", <<>>, FALSE, {<<Sel("argument"), e>>})

Block(ss) == Mk("BlockStatement", <<>>, FALSE, Elems("body", ss))

FuncExpr(id, e) ==
    Mk("FunctionExpression", <<>>, FALSE, {<<Sel("id"), id>>, <<Sel("body"), Block(<<ReturnStmt(e)>>)>>})

FuncDecl(id, e) ==
    Mk("FunctionDeclaration", <<>>, FALSE, {<<Sel("id"), id>>, <<Sel("body"), Block(<<ReturnStmt(e)>>)>>})

ExprStmt(e) == Mk("ExpressionStatement", <<>>, FALSE, {<<Sel("expression"), e>>})

VarDeclarator(id, init) == Mk("VariableDeclarator", <<>>, FALSE, {<<Sel("id"), id>>, <<Sel("init"), init>>})

VarDecl(ds) == Mk("VariableDeclaration", <<>>, FALSE, Elems("declarations", ds))

Program(ss) == Mk("Program", <<>>, FALSE, Elems("body", ss))

A == <<"a">>

B == <<"b", "c">>

Names == {A, B}

\* call and member chains: a, a.bc, a[bc], a[0], a(a), this.a, a(a).bc, ...
ChainBase == {Id(A), This}

ChainStep(S) ==
    {Member(o, Id(n), FALSE) : o \in S, n \in Names}
    \cup {Member(o, p, TRUE) : o \in S, p \in {Id(B), Lit}}
    \cup {Call(o, <<Id(A)>>) : o \in S}

RECURSIVE ChainTrees(_)
ChainTrees(d) == IF d = 0 THEN ChainBase
                 ELSE LET S == ChainTrees(d - 1) IN S \cup ChainStep(S)

\* an expression in the position of a function's value, argument or body
Wrap(S) ==
    {Assign(Id(B), h) : h \in S}
    \cup {Assign(Member(Id(A), Id(B), FALSE), h) : h \in S}
    \cup {Call(Id(B), <<h>>) : h \in S}
    \cup {Arrow(h) : h \in S}
    \cup {FuncExpr(NoTree, h) : h \in S}
    \cup {FuncExpr(Id(B), h) : h \in S}

RECURSIVE Wrapped(_)
Wrapped(d) == IF d = 0 THEN {Id(A)}
              ELSE LET S == Wrapped(d - 1) IN S \cup Wrap(S)

\* the statement around the expression: none (a fragment whose root has no
\* parent), or a program of one statement
Top(h) ==
    {h,
     Program(<<ExprStmt(h)>>),
     Program(<<VarDecl(<<VarDeclarator(Id(B), h)>>)>>),
     Program(<<VarDecl(<<VarDeclarator(ObjectPattern, h)>>)>>),
     Program(<<FuncDecl(Id(B), h)>>)}

ContextTrees(d) == UNION {Top(h) : h \in Wrapped(d)}

\* one tree per kind of containing expression of isParameter
OperandTrees ==
    {Call(Id(A), <<Id(A), Id(A)>>),
     Assign(Id(A), Id(A)),
     Program(<<VarDecl(<<VarDeclarator(Id(A), NoTree)>>)>>),
     Object(<<Property(Id(A), Id(A))>>),
     Array(<<NoTree, Id(A), Id(A)>>),
     Cond(Id(A), Id(A), Id(A)),
     Cond(Id(A), Id(A), Id(B)),
     Arrow(Block(<<ReturnStmt(Id(A))>>))}

Trees == ChainTrees(MaxChain) \cup ContextTrees(MaxWrap) \cup OperandTrees

Nodes == DOMAIN root

----------------------------------------------------------------------------
(* Reading a node *)

\* v.type
Type(v) == root[v.path].type

\* v.f for a child field f: a node, null, or undefined when the node has no
\* such field; a TypeError when v is null or undefined
Get(v, f) ==
    IF v.t # "node" THEN TypeError
    ELSE IF Append(v.path, Sel(f)) \in Nodes THEN Ref(Append(v.path, Sel(f)))
    ELSE IF Sel(f) \in root[v.path].nulls THEN Null
    ELSE Undefined

\* v.name: nodes without a name have none
GetName(v) == IF root[v.path].name = <<>> THEN Undefined ELSE Str(root[v.path].name)

\* v.computed
Computed(v) == root[v.path].computed

\* v.parent: absent on the root of a fragment, null on a Program
Parent(v) ==
    IF v.t # "node" THEN TypeError
    ELSE IF v.path # <<>> THEN Ref(SubSeq(v.path, 1, Len(v.path) - 1))
    ELSE IF Type(v) = "Program" THEN Null
    ELSE Undefined

\* the array v.f, as the sequence of its elements
RECURSIVE ArrayFrom(_, _, _)
ArrayFrom(v, f, k) ==
    IF Append(v.path, Idx(f, k)) \in Nodes
    THEN <<Ref(Append(v.path, Idx(f, k)))>> \o ArrayFrom(v, f, k + 1)
    ELSE IF Idx(f, k) \in root[v.path].nulls
    THEN <<Null>> \o ArrayFrom(v, f, k + 1)
    ELSE <<>>

GetArray(v, f) == ArrayFrom(v, f, 1)

----------------------------------------------------------------------------
(* Array helpers *)

\* the names left in the order they were pushed
NotReversed(s) == s

\* Array.prototype.reverse
RECURSIVE Reverse(_)
Reverse(s) == IF s = <<>> THEN <<>> ELSE Append(Reverse(Tail(s)), Head(s))

\* the text of one element under string concatenation: undefined is spelled
UndefinedSpelled(v) ==
    IF v.t = "string" THEN v.str ELSE <<"u", "n", "d", "e", "f", "i", "n", "e", "d">>

\* the text of one element under Array.prototype.join: undefined and null
\* elements give the empty string
JoinText(v) == IF v.t = "string" THEN v.str ELSE <<>>

\* Array.prototype.join with separator sep
RECURSIVE ArrayJoin(_, _)
ArrayJoin(arr, sep) ==
    IF arr = <<>> THEN <<>>
    ELSE IF Len(arr) = 1 THEN JoinText(arr[1])
    ELSE JoinText(arr[1]) \o sep \o ArrayJoin(Tail(arr), sep)

\* the subtree at p, as a tree of its own
Subtree(p) ==
    LET below == {x \in Nodes : Len(x) >= Len(p) /\ SubSeq(x, 1, Len(p)) = p}
    IN  [q \in {SubSeq(r, Len(p) + 1, Len(r)) : r \in below} |-> root[p \o q]]

\* a comparison by structure, where the code compares by identity
DeepEquals(a, b) ==
    IF a.t = "node" /\ b.t = "node" THEN Subtree(a.path) = Subtree(b.path) ELSE a = b

\* a === b on nodes, null and undefined: identity
StrictEquals(a, b) == a = b

\* arr.forEach( x => { if( x === n ) flag = true } ), from flag
RECURSIVE ForEachEquals(_, _, _)
ForEachEquals(arr, n, flag) ==
    IF arr = <<>> THEN flag
    ELSE ForEachEquals(Tail(arr), n, IF StrictEquals(Head(arr), n) THEN TRUE ELSE flag)

----------------------------------------------------------------------------
(* The helpers of lib/tree.js.  A node argument is a Ref. *)

\* the member is unwrapped to its property, computed or not
getIdentifierAlwaysProperty(n) ==
    LET n1 == IF Type(n) = "CallExpression" THEN Get(n, "callee") ELSE n
        n2 == IF Type(n1) = "MemberExpression" THEN Get(n1, "property") ELSE n1
    IN  IF Type(n2) # "Identifier" THEN Null ELSE n2

\* the branches on computed are exchanged
getIdentifierSwapped(n) ==
    LET n1 == IF Type(n) = "CallExpression" THEN Get(n, "callee") ELSE n
        n2 == IF Type(n1) = "MemberExpression"
              THEN IF Computed(n1) THEN Get(n1, "property") ELSE Get(n1, "object")
              ELSE n1
    IN  IF Type(n2) # "Identifier" THEN Null ELSE n2

getIdentifier(n) ==
    LET n1 == IF Type(n) = "CallExpression" THEN Get(n, "callee") ELSE n
        n2 == IF Type(n1) = "MemberExpression"
              THEN IF Computed(n1) THEN Get(n1, "object") ELSE Get(n1, "property")
              ELSE n1
    IN  IF Type(n2) # "Identifier" THEN Null ELSE n2

\* the ThisExpression check is left out
getNodeNameNoThis(n) ==
    LET id == getIdentifier(n)
    IN  IF Truthy(id) THEN GetName(id) ELSE Str(<<>>)

getNodeName(n) ==
    IF Type(n) = "ThisExpression" THEN Str(<<"t", "h", "i", "s">>)
    ELSE LET id == getIdentifier(n)
         IN  IF Truthy(id) THEN GetName(id) ELSE Str(<<>>)

\* the while loop of getFullItemName: <<the node it stops at, the names pushed>>
RECURSIVE MemberNames(_, _)
MemberNames(func, name) ==
    IF Type(func) = "MemberExpression"
    THEN MemberNames(Get(func, "object"), Append(name, GetName(Get(func, "property"))))
    ELSE <<func, name>>

getFullItemName(f) ==
    LET func  == IF Type(f) = "CallExpression" THEN Get(f, "callee") ELSE f
        loop  == MemberNames(func, <<>>)
        name  == IF Type(loop[1]) = "Identifier"
                 THEN Append(loop[2], GetName(loop[1]))
                 ELSE loop[2]
    IN  Str(ArrayJoin(Reverse(name), <<".">>))

\* isMember is taken from the node before the call is unwrapped
getPartialItemNameEarlyMember(f) ==
    LET isMember == Type(f) = "MemberExpression"
        func     == IF Type(f) = "CallExpression" THEN Get(f, "callee") ELSE f
        id       == getIdentifier(func)
    IN  IF ~Truthy(id) THEN Undefined
        ELSE Str((IF isMember THEN <<".">> ELSE <<>>) \o GetName(id).str)

getPartialItemName(f) ==
    LET func     == IF Type(f) = "CallExpression" THEN Get(f, "callee") ELSE f
        isMember == Type(func) = "MemberExpression"
        id       == getIdentifier(func)
    IN  IF ~Truthy(id) THEN Undefined
        ELSE Str((IF isMember THEN <<".">> ELSE <<>>) \o GetName(id).str)

FunctionTypes == {"FunctionExpression", "FunctionDeclaration", "ArrowFunctionExpression"}

\* the while loop of getParentFunctionIdentifier
RECURSIVE ClosestFunction(_)
ClosestFunction(func) ==
    IF Truthy(func) /\ Type(func) \notin FunctionTypes
    THEN ClosestFunction(Parent(func))
    ELSE func

\* the variable or assignment target is looked at before the function's id
getParentFunctionIdentifierParentFirst(n) ==
    LET func   == ClosestFunction(n)
        id     == Get(func, "id")
        parent == Parent(func)
    IN  IF id = TypeError THEN TypeError
        ELSE IF Truthy(parent) /\ Type(parent) = "VariableDeclarator"
        THEN Get(parent, "id")
        ELSE IF Truthy(parent) /\ Type(parent) = "AssignmentExpression"
        THEN Get(parent, "left")
        ELSE IF Truthy(id) THEN id
        ELSE Null

getParentFunctionIdentifier(n) ==
    LET func == ClosestFunction(n)
        id   == Get(func, "id")
    IN  IF id = TypeError THEN TypeError
        ELSE IF Truthy(id) THEN id
        ELSE LET parent == Parent(func)
             IN  IF Truthy(parent) /\ Type(parent) = "VariableDeclarator"
                 THEN Get(parent, "id")
                 ELSE IF Truthy(parent) /\ Type(parent) = "AssignmentExpression"
                 THEN Get(parent, "left")
                 ELSE Null

isParameter(n, e) ==
    IF Type(e) = "CallExpression" THEN Bool(ForEachEquals(GetArray(e, "arguments"), n, FALSE))
    ELSE IF Type(e) = "AssignmentExpression" THEN Bool(StrictEquals(Get(e, "right"), n))
    ELSE IF Type(e) = "VariableDeclarator" THEN Bool(StrictEquals(Get(e, "init"), n))
    ELSE IF Type(e) = "Property" THEN Bool(StrictEquals(Get(e, "value"), n))
    ELSE IF Type(e) = "ArrayExpression" THEN Bool(ForEachEquals(GetArray(e, "elements"), n, FALSE))
    ELSE IF Type(e) = "FunctionExpression" THEN Bool(FALSE)
    ELSE IF Type(e) = "ConditionalExpression"
    THEN Bool(StrictEquals(n, Get(e, "alternate")) \/ StrictEquals(n, Get(e, "consequent")))
    ELSE IF Type(e) = "ArrowFunctionExpression" THEN Bool(StrictEquals(n, Get(e, "body")))
    ELSE Bool(TRUE)

----------------------------------------------------------------------------
(* The state machine: a parsed tree, and the last call made on it *)

Init ==
    /\ root \in Trees
    /\ op = "none"
    /\ node = <<>>
    /\ expr = <<>>
    /\ result = Undefined

\* a call is made when no call is in progress, and records its result
Called(name, n, e, r) ==
    /\ op = "none"
    /\ op' = name
    /\ node' = n
    /\ expr' = e
    /\ result' = r
    /\ UNCHANGED root

CallGetIdentifier ==
    \E n \in Nodes : Called("getIdentifier", n, <<>>, getIdentifier(Ref(n)))

CallGetNodeName ==
    \E n \in Nodes : Called("getNodeName", n, <<>>, getNodeName(Ref(n)))

CallGetFullItemName ==
    \E n \in Nodes : Called("getFullItemName", n, <<>>, getFullItemName(Ref(n)))

CallGetPartialItemName ==
    \E n \in Nodes : Called("getPartialItemName", n, <<>>, getPartialItemName(Ref(n)))

CallGetParentFunctionIdentifier ==
    \E n \in Nodes :
        Called("getParentFunctionIdentifier", n, <<>>, getParentFunctionIdentifier(Ref(n)))

CallIsParameter ==
    \E n \in Nodes, e \in Nodes : Called("isParameter", n, e, isParameter(Ref(n), Ref(e)))

\* the call returns to the caller; the helpers keep nothing between calls
Return ==
    /\ op # "none"
    /\ op' = "none"
    /\ node' = <<>>
    /\ expr' = <<>>
    /\ result' = Undefined
    /\ UNCHANGED root

Next ==
    \/ CallGetIdentifier
    \/ CallGetNodeName
    \/ CallGetFullItemName
    \/ CallGetPartialItemName
    \/ CallGetParentFunctionIdentifier
    \/ CallIsParameter
    \/ Return

Spec == Init /\ [][Next]_vars

----------------------------------------------------------------------------
(* Vocabulary of the properties: the tree seen from outside the helpers *)

TypeAt(p) == root[p].type

NameAt(p) == root[p].name

Child(p, f) == Append(p, Sel(f))

HasChild(p, f) == Child(p, f) \in Nodes

Front(p) == SubSeq(p, 1, Len(p) - 1)

\* the elements of the array field f of p that are nodes
Children(p, f) == {q \in Nodes : Len(q) = Len(p) + 1 /\ Front(q) = p /\ q[Len(q)][1] = f /\ q[Len(q)][2] > 0}

\* p and its ancestors
Chain(p) == {SubSeq(p, 1, k) : k \in 0..Len(p)}

FunctionLike(p) == TypeAt(p) \in {"FunctionExpression", "FunctionDeclaration", "ArrowFunctionExpression"}

Enclosing(p) == {q \in Chain(p) : FunctionLike(q)}

Nearest(p) == CHOOSE q \in Enclosing(p) : \A r \in Enclosing(p) : Len(r) <= Len(q)

\* the node after one CallExpression layer is unwrapped
Unwrapped(p) == IF TypeAt(p) = "CallExpression" THEN Child(p, "callee") ELSE p

\* a chain of non-computed member accesses on an Identifier
RECURSIVE SimpleChain(_)
SimpleChain(p) ==
    \/ TypeAt(p) = "Identifier"
    \/ /\ TypeAt(p) = "MemberExpression"
       /\ ~root[p].computed
       /\ SimpleChain(Child(p, "object"))

\* the segments of a chain from left to right: the base when it is an
\* Identifier, then each member's property name, empty when it has none
RECURSIVE Segments(_)
Segments(p) ==
    IF TypeAt(p) = "MemberExpression"
    THEN Append(Segments(Child(p, "object")), NameAt(Child(p, "property")))
    ELSE IF TypeAt(p) = "Identifier" THEN <<NameAt(p)>>
    ELSE <<>>

\* the segments written with a '.' between each two
RECURSIVE Dotted(_)
Dotted(segs) ==
    IF segs = <<>> THEN <<>>
    ELSE IF Len(segs) = 1 THEN segs[1]
    ELSE Dotted(Front(segs)) \o <<".">> \o segs[Len(segs)]

Dots(s) == Cardinality({i \in 1..Len(s) : s[i] = "."})

\* the text after the last '.'
LastSegment(s) ==
    LET dots == {i \in 1..Len(s) : s[i] = "."}
    IN  IF dots = {} THEN s
        ELSE SubSeq(s, (CHOOSE i \in dots : \A j \in dots : j <= i) + 1, Len(s))

StripDot(s) == IF s # <<>> /\ s[1] = "." THEN Tail(s) ELSE s

----------------------------------------------------------------------------
(* C1: getParentFunctionIdentifier returns null, without raising an error, *)
(* for a node with no function-like node on its parent chain               *)
C1_NullOffRoot ==
    (op = "getParentFunctionIdentifier" /\ Enclosing(node) = {}) => result = Null

(* C2: with a function-like ancestor-or-self, getParentFunctionIdentifier  *)
(* takes the nearest one F and returns F.id if F has one, else the id of a *)
(* VariableDeclarator parent, else the left of an AssignmentExpression     *)
(* parent, else null                                                       *)
C2_NearestFunctionName ==
    (op = "getParentFunctionIdentifier" /\ Enclosing(node) # {}) =>
        LET F == Nearest(node)
        IN  result =
              IF HasChild(F, "id") THEN Ref(Child(F, "id"))
              ELSE IF F # <<>> /\ TypeAt(Front(F)) = "VariableDeclarator"
              THEN Ref(Child(Front(F), "id"))
              ELSE IF F # <<>> /\ TypeAt(Front(F)) = "AssignmentExpression"
              THEN Ref(Child(Front(F), "left"))
              ELSE Null

\* a named function expression that is the init of a declarator, inside
\* another function: the inner function's own id is returned
C2_Witness ==
    /\ op = "getParentFunctionIdentifier"
    /\ Cardinality(Enclosing(node)) >= 2
    /\ HasChild(Nearest(node), "id")
    /\ Nearest(node) # <<>>
    /\ TypeAt(Front(Nearest(node))) \in {"VariableDeclarator", "AssignmentExpression"}
    /\ result = Ref(Child(Nearest(node), "id"))

(* C3: isParameter never fails and equals the dispatch table on expr.type, *)
(* by node identity                                                        *)
C3_DispatchTable ==
    op = "isParameter" =>
        result = Bool(
            CASE TypeAt(expr) = "CallExpression" -> node \in Children(expr, "arguments")
              [] TypeAt(expr) = "AssignmentExpression" -> node = Child(expr, "right")
              [] TypeAt(expr) = "VariableDeclarator" -> node = Child(expr, "init")
              [] TypeAt(expr) = "Property" -> node = Child(expr, "value")
              [] TypeAt(expr) = "ArrayExpression" -> node \in Children(expr, "elements")
              [] TypeAt(expr) = "FunctionExpression" -> FALSE
              [] TypeAt(expr) = "ConditionalExpression" ->
                     node \in {Child(expr, "consequent"), Child(expr, "alternate")}
              [] TypeAt(expr) = "ArrowFunctionExpression" -> node = Child(expr, "body")
              [] OTHER -> TRUE)

\* a node that is no argument of the call but has the structure of one
C3_Witness ==
    /\ op = "isParameter"
    /\ TypeAt(expr) = "CallExpression"
    /\ node \notin Children(expr, "arguments")
    /\ \E a \in Children(expr, "arguments") : Subtree(a) = Subtree(node)
    /\ result = Bool(FALSE)

(* C4: for a chain of non-computed members on an Identifier,               *)
(* getFullItemName returns the names joined by '.', left to right, for the *)
(* bare chain and for a call of it; only one call layer is unwrapped       *)
C4_DottedChain ==
    op = "getFullItemName" =>
        /\ SimpleChain(Unwrapped(node)) => result = Str(Dotted(Segments(Unwrapped(node))))
        /\ (TypeAt(node) = "CallExpression" /\ TypeAt(Unwrapped(node)) = "CallExpression") =>
               result = Str(<<>>)

\* a.bc.a(a)
C4_Witness ==
    /\ op = "getFullItemName"
    /\ TypeAt(node) = "CallExpression"
    /\ SimpleChain(Unwrapped(node))
    /\ result = Str(<<"a", ".", "b", "c", ".", "a">>)

(* C5: getIdentifier unwraps at most one call, then at most one member     *)
(* (to object when computed, else to property) and returns that node if it *)
(* is an Identifier, else null                                             *)
C5_OneUnwrap ==
    op = "getIdentifier" =>
        LET u == Unwrapped(node)
            m == IF TypeAt(u) # "MemberExpression" THEN u
                 ELSE IF root[u].computed THEN Child(u, "object") ELSE Child(u, "property")
        IN  /\ result = IF TypeAt(m) = "Identifier" THEN Ref(m) ELSE Null
            /\ TypeAt(node) = "Identifier" => result = Ref(node)
            /\ TypeAt(m) \in {"MemberExpression", "CallExpression"} => result = Null

\* a[bc](a): the object of the computed member is returned
C5_Witness ==
    /\ op = "getIdentifier"
    /\ TypeAt(node) = "CallExpression"
    /\ TypeAt(Unwrapped(node)) = "MemberExpression"
    /\ root[Unwrapped(node)].computed
    /\ TypeAt(Child(Unwrapped(node), "property")) = "Identifier"
    /\ result = Ref(Child(Unwrapped(node), "object"))

(* C6: getPartialItemName returns undefined exactly when getIdentifier is  *)
(* null on the node after one call unwrap; else the identifier's name,     *)
(* with a leading '.' iff that node is a MemberExpression; never ""        *)
C6_PartialName ==
    op = "getPartialItemName" =>
        LET u  == Unwrapped(node)
            id == getIdentifier(Ref(u))
        IN  /\ result = Undefined <=> id = Null
            /\ id # Null =>
                 result = Str((IF TypeAt(u) = "MemberExpression" THEN <<".">> ELSE <<>>)
                              \o NameAt(id.path))
            /\ result # Str(<<>>)

\* a.bc.a(a) gives ".a"
C6_Witness ==
    /\ op = "getPartialItemName"
    /\ TypeAt(node) = "CallExpression"
    /\ TypeAt(Unwrapped(node)) = "MemberExpression"
    /\ TypeAt(Child(Unwrapped(node), "object")) = "MemberExpression"
    /\ result = Str(<<".", "a">>)

(* C7: getNodeName always returns a string: "this" for a ThisExpression,   *)
(* else the name of getIdentifier(node) when non-null, else ""; it is ""   *)
(* exactly when the node is no ThisExpression and getIdentifier is null    *)
C7_NodeName ==
    op = "getNodeName" =>
        LET id == getIdentifier(Ref(node))
        IN  /\ result.t = "string"
            /\ TypeAt(node) = "ThisExpression" => result = Str(<<"t", "h", "i", "s">>)
            /\ (TypeAt(node) # "ThisExpression" /\ id # Null) => result = Str(NameAt(id.path))
            /\ result = Str(<<>>) <=> (TypeAt(node) # "ThisExpression" /\ id = Null)

C7_Witness ==
    /\ op = "getNodeName"
    /\ TypeAt(node) = "ThisExpression"
    /\ result = Str(<<"t", "h", "i", "s">>)

(* C8 as claimed: whenever getPartialItemName returns a string, that       *)
(* string without its leading '.' is the last segment of getFullItemName   *)
(* on the same node, computed members included                             *)
C8_LastSegmentAlways ==
    (op = "getPartialItemName" /\ result.t = "string") =>
        StripDot(result.str) = LastSegment(getFullItemName(Ref(node)).str)

(* C8 amended: whenever getPartialItemName returns a string and the node   *)
(* after one call unwrap is an Identifier or a non-computed                *)
(* MemberExpression, that string without its leading '.' is the last       *)
(* segment of getFullItemName on the same node                             *)
C8_LastSegmentDotted ==
    (/\ op = "getPartialItemName"
     /\ result.t = "string"
     /\ \/ TypeAt(Unwrapped(node)) = "Identifier"
        \/ TypeAt(Unwrapped(node)) = "MemberExpression" /\ ~root[Unwrapped(node)].computed) =>
        StripDot(result.str) = LastSegment(getFullItemName(Ref(node)).str)

\* this[0].bc(a): the last segment of a chain that is not simple
C8_Witness ==
    /\ op = "getPartialItemName"
    /\ TypeAt(node) = "CallExpression"
    /\ TypeAt(Unwrapped(node)) = "MemberExpression"
    /\ ~root[Unwrapped(node)].computed
    /\ ~SimpleChain(Unwrapped(node))
    /\ result = Str(<<".", "b", "c">>)

(* C9: every value getParentFunctionIdentifier returns is null or an       *)
(* Identifier node                                                         *)
C9_IdentifierOrNull ==
    (op = "getParentFunctionIdentifier" /\ result.t # "throw") =>
        \/ result = Null
        \/ result.t = "node" /\ TypeAt(result.path) = "Identifier"

(* C10: on a chain with computed members or a base that is no Identifier,  *)
(* getFullItemName returns a string: the property names of the members, an *)
(* empty segment for a property without a name, no segment for the base    *)
(* unless it is an Identifier, with one '.' between each two segments      *)
C10_DegenerateChain ==
    (op = "getFullItemName" /\ ~SimpleChain(Unwrapped(node))) =>
        LET segs == Segments(Unwrapped(node))
        IN  /\ result.t = "string"
            /\ result.str = Dotted(segs)
            /\ Dots(result.str) = IF segs = <<>> THEN 0 ELSE Len(segs) - 1

\* this[0].bc: an empty segment, and no segment for the base
C10_Witness ==
    /\ op = "getFullItemName"
    /\ TypeAt(node) = "MemberExpression"
    /\ TypeAt(Child(node, "object")) = "MemberExpression"
    /\ root[Child(node, "object")].computed
    /\ TypeAt(Child(Child(node, "object"), "property")) = "Literal"
    /\ TypeAt(Child(Child(node, "object"), "object")) = "ThisExpression"
    /\ result = Str(<<".", "b", "c">>)

====
